---- MODULE Spec2Model ----
(***************************************************************************)
(* A model of one reconciliation run of MemoryStoreEnricher.ainvoke        *)
(* (src/src/langmem/knowledge/extraction.py): search the store, seed the   *)
(* record sets, run the primary enrichment and every configured phase      *)
(* through MemoryEnricher.ainvoke and _apply_enricher_output, plan the     *)
(* puts and deletes, and issue them to the store.                          *)
(***************************************************************************)
EXTENDS Integers, Sequences, FiniteSets, TLC

\* ------------------------------------------------------------------------
\* Bounds of the exploration
\* ------------------------------------------------------------------------
\* operations the model may propose over a whole run (all phases together)
MaxOps == 2
\* configured refinement phases (self.phases), besides the primary enrichment
MaxPhases == 1
\* search tool calls of one run (query_req.tool_calls)
MaxQueries == 2
\* largest query_limit a MemoryStoreEnricher is constructed with
MaxLimit == 2

\* ------------------------------------------------------------------------
\* Values
\* ------------------------------------------------------------------------
\* the namespace the template resolves to for this run, and a namespace below it
namespace == <<"memories", "u1">>
SubNamespace == <<"memories", "u1", "sub">>

\* keys of entries already in the store (keys written by an earlier run are
\* the uuid4 ids of that run's ephemeral records)
K1 == <<"uuid4", "k1">>
K2 == <<"uuid4", "k2">>
K3 == <<"uuid4", "k3">>

\* SearchItem.score is Optional[float]; NoScore stands for None
NoScore == -1
Scores == {NoScore, 1}

\* float("-inf"): below every score
NegInf == -2

\* The id a uuid4() call returns for a new record, and the id given to an
\* operation whose response metadata carries no json_doc_id
F1 == <<"uuid4", "f1">>
OpUuid == <<"uuid4", "op">>

\* no id (None)
NoId == <<>>

Contents == {"c1", "c2"}
Kinds == {"Memory", "Pref"}

\* ------------------------------------------------------------------------
\* Python dict semantics on insertion-ordered sequences of tuples whose first
\* component is the key
\* ------------------------------------------------------------------------
DictHas(d, k) == \E i \in 1..Len(d) : d[i][1] = k

DictGet(d, k) == d[CHOOSE i \in 1..Len(d) : d[i][1] = k]

DictPop(d, k) == SelectSeq(d, LAMBDA t : t[1] # k)

\* a list append where the dict assignment should be
DictSet_Append(d, k, v) == Append(d, v)

DictSet(d, k, v) ==
    IF DictHas(d, k)
    THEN [i \in 1..Len(d) |-> IF d[i][1] = k THEN v ELSE d[i]]
    ELSE Append(d, v)

RECURSIVE DictFromList(_)
DictFromList(l) ==
    IF l = <<>> THEN <<>>
    ELSE LET n == Len(l)
         IN DictSet(DictFromList(SubSeq(l, 1, n - 1)), l[n][1], l[n])

DictKeys(d) == {d[i][1] : i \in 1..Len(d)}

\* ------------------------------------------------------------------------
\* Stable ids
\* ------------------------------------------------------------------------
\* a hash that also covers whether the item has a score
_stable_id_Scored(item) ==
    <<"uuid5">> \o item.namespace \o item.key
        \o (IF "score" \in DOMAIN item /\ item.score # NoScore THEN <<"scored">> ELSE <<>>)

\* uuid5(NAMESPACE_DNS, str((*item.namespace, item.key))).hex: a hash of the
\* namespace segments followed by the key
_stable_id(item) == <<"uuid5">> \o item.namespace \o item.key

S1 == _stable_id([namespace |-> SubNamespace, key |-> K1])
S2 == _stable_id([namespace |-> namespace, key |-> K2])

\* ------------------------------------------------------------------------
\* The store
\* ------------------------------------------------------------------------
StorePut(s, ns, key, value) ==
    [x \in (DOMAIN s) \cup {<<ns, key>>} |-> IF x = <<ns, key>> THEN value ELSE s[x]]

StoreDelete(s, ns, key) ==
    [x \in (DOMAIN s) \ {<<ns, key>>} |-> s[x]]

\* ------------------------------------------------------------------------
\* Search aggregation
\* ------------------------------------------------------------------------
\* key=lambda it: it.score if it.score is not None else float("-inf")
SortKey(it) == IF it.score # NoScore THEN it.score ELSE NegInf

\* the values in dict order, not sorted
SortedDesc_Unsorted(s) == s

\* sorted(..., reverse=True): descending and stable (equal keys keep their order)
RECURSIVE SortedDesc(_)
SortedDesc(s) ==
    IF s = <<>> THEN <<>>
    ELSE LET n == Len(s)
             rest == SortedDesc(SubSeq(s, 1, n - 1))
             x == s[n]
             p == Cardinality({i \in 1..Len(rest) : SortKey(rest[i]) >= SortKey(x)})
         IN SubSeq(rest, 1, p) \o <<x>> \o SubSeq(rest, p + 1, Len(rest))

\* the items of all result lists, in the order the two loops visit them
RECURSIVE Flatten(_)
Flatten(lists) ==
    IF lists = <<>> THEN <<>> ELSE Head(lists) \o Flatten(Tail(lists))

\* search_results[(tuple(item.namespace), item.key)] = item, for every item
RECURSIVE Dedup(_)
Dedup(items) ==
    IF items = <<>> THEN <<>>
    ELSE LET n == Len(items)
             it == items[n]
         IN DictSet(Dedup(SubSeq(items, 1, n - 1)),
                    <<it.namespace, it.key>>, <<<<it.namespace, it.key>>, it>>)

Truncate(s, n) == SubSeq(s, 1, IF Len(s) < n THEN Len(s) ELSE n)

_sort_results(search_results_lists, limit) ==
    LET search_results == Dedup(Flatten(search_results_lists))
        values == [i \in 1..Len(search_results) |-> search_results[i][2]]
        sorted_results == Truncate(SortedDesc(values), limit)
    IN DictFromList([i \in 1..Len(sorted_results) |->
                        <<_stable_id(sorted_results[i]), sorted_results[i]>>])

\* store_based = [(sid, item.value["kind"], item.value["content"]) ...]
SeedStoreBased(smap) ==
    [i \in 1..Len(smap) |-> <<smap[i][1], smap[i][2].value.kind, smap[i][2].value.content>>]

\* ------------------------------------------------------------------------
\* MemoryEnricher
\* ------------------------------------------------------------------------
\* a value that is not a BaseModel (the stored content of an existing record)
Raw(c) == [is_model |-> FALSE, repr_name |-> "", dump |-> c, json_doc_id |-> NoId]

\* a validated schema instance; dump is its model_dump(mode="json")
Model(kind, c) == [is_model |-> TRUE, repr_name |-> kind, dump |-> c, json_doc_id |-> NoId]

\* trustcall's RemoveDoc(json_doc_id=target)
RemoveDoc(target) ==
    [is_model |-> TRUE, repr_name |-> "RemoveDoc", dump |-> "", json_doc_id |-> target]

ExtractedMemory(id, content) == [id |-> id, content |-> content]

\* every existing record is appended
MergeExisting_All(results, prepared_existing) ==
    results \o [i \in 1..Len(prepared_existing) |->
                    ExtractedMemory(prepared_existing[i][1], Raw(prepared_existing[i][3]))]

\* for mem_tuple in prepared_existing: append it unless its id is a result id
RECURSIVE MergeExisting(_, _)
MergeExisting(results, prepared_existing) ==
    IF prepared_existing = <<>> THEN results
    ELSE LET mem_tuple == Head(prepared_existing)
             mem_id == mem_tuple[1]
             mem == mem_tuple[3]
             matched == \E i \in 1..Len(results) : mem_id = results[i].id
         IN MergeExisting(
                IF ~matched THEN Append(results, ExtractedMemory(mem_id, Raw(mem)))
                ELSE results,
                Tail(prepared_existing))

\* MemoryEnricher.ainvoke: the extractor's responses, then the existing
\* records no response id matches
EnricherInvoke(response, existing) == MergeExisting(response, existing)

\* ------------------------------------------------------------------------
\* _apply_enricher_output
\* ------------------------------------------------------------------------
IsRemoveDoc(model_data) == model_data.is_model /\ model_data.repr_name = "RemoveDoc"

\* every RemoveDoc that names an id is recorded
RecordsRemoval_Any(removal_id, smap) == removal_id # NoId

\* if removal_id and removal_id in store_map
RecordsRemoval(removal_id, smap) == removal_id # NoId /\ DictHas(smap, removal_id)

\* the default kind whatever the record's kind was
PriorKind_Default(store_dict, stable_id) == "Memory"

\* store_dict.get(stable_id, (stable_id, "Memory", {}))[1]
PriorKind(store_dict, stable_id) ==
    IF DictHas(store_dict, stable_id) THEN DictGet(store_dict, stable_id)[2] ELSE "Memory"

\* a record under an id ephemeral_dict does not hold is dropped
SetEphemeral_KnownOnly(ephemeral_dict, stable_id, rec) ==
    IF DictHas(ephemeral_dict, stable_id) THEN DictSet(ephemeral_dict, stable_id, rec)
    ELSE ephemeral_dict

\* ephemeral_dict[stable_id] = (stable_id, new_kind, new_content)
SetEphemeral(ephemeral_dict, stable_id, rec) == DictSet(ephemeral_dict, stable_id, rec)

\* a record is written to store_dict whenever its id is a snapshot id
WritesStoreDict_BySnapshot(store_dict, smap, stable_id) == DictHas(smap, stable_id)

\* if stable_id in store_dict
WritesStoreDict(store_dict, smap, stable_id) == DictHas(store_dict, stable_id)

\* one iteration of the loop over enricher_output
ApplyOne(acc, extracted, smap) ==
    LET stable_id == extracted.id
        model_data == extracted.content
    IN IF IsRemoveDoc(model_data)
       THEN LET removal_id == model_data.json_doc_id
            IN [store_dict |-> DictPop(acc.store_dict, removal_id),
                ephemeral_dict |-> DictPop(acc.ephemeral_dict, removal_id),
                removed_ids |-> IF RecordsRemoval(removal_id, smap)
                                THEN Append(acc.removed_ids, removal_id)
                                ELSE acc.removed_ids]
       ELSE LET new_kind == IF model_data.is_model THEN model_data.repr_name
                            ELSE PriorKind(acc.store_dict, stable_id)
                new_content == model_data.dump
                rec == <<stable_id, new_kind, new_content>>
            IN IF WritesStoreDict(acc.store_dict, smap, stable_id)
               THEN [acc EXCEPT !.store_dict = DictSet(@, stable_id, rec)]
               ELSE [acc EXCEPT !.ephemeral_dict = SetEphemeral(@, stable_id, rec)]

RECURSIVE ApplyAll(_, _, _)
ApplyAll(acc, enricher_output, smap) ==
    IF enricher_output = <<>> THEN acc
    ELSE ApplyAll(ApplyOne(acc, Head(enricher_output), smap), Tail(enricher_output), smap)

_apply_enricher_output(enricher_output, sb, smap, eph) ==
    ApplyAll([store_dict |-> DictFromList(sb),
              ephemeral_dict |-> DictFromList(eph),
              removed_ids |-> <<>>],
             enricher_output, smap)

SeqToSet(s) == {s[i] : i \in 1..Len(s)}

\* ------------------------------------------------------------------------
\* Final planning
\* ------------------------------------------------------------------------
\* every store-backed record is written back
Changed_Always(old_art, kind, content) == TRUE

\* only the kind is compared
Changed_KindOnly(old_art, kind, content) == old_art.value.kind # kind

\* old_art.value["kind"] != kind or old_art.value["content"] != content
Changed(old_art, kind, content) ==
    old_art.value.kind # kind \/ old_art.value.content # content

Put(ns, key, kind, content) ==
    [namespace |-> ns, key |-> key, value |-> [kind |-> kind, content |-> content]]

\* every record is planned as an insert
IsStoreBacked_Never(smap, sid) == FALSE

\* if sid in store_map
IsStoreBacked(smap, sid) == DictHas(smap, sid)

\* the removed ids are not filtered out
IsRemoved_Never(removed, sid) == FALSE

\* if sid in removed_ids: continue
IsRemoved(removed, sid) == sid \in removed

\* the puts one record of final_mem contributes
PutsFor(rec, smap, removed, ns) ==
    LET sid == rec[1]
        kind == rec[2]
        content == rec[3]
    IN IF IsRemoved(removed, sid) THEN <<>>
       ELSE IF IsStoreBacked(smap, sid)
            THEN LET old_art == DictGet(smap, sid)[2]
                 IN IF Changed(old_art, kind, content)
                    THEN <<Put(old_art.namespace, old_art.key, kind, content)>>
                    ELSE <<>>
            ELSE <<Put(ns, sid, kind, content)>>

RECURSIVE FinalPuts(_, _, _, _)
FinalPuts(final_mem, smap, removed, ns) ==
    IF final_mem = <<>> THEN <<>>
    ELSE PutsFor(Head(final_mem), smap, removed, ns)
         \o FinalPuts(Tail(final_mem), smap, removed, ns)

\* the delete is addressed by the record id instead of the entry's key
FinalDeletes_ById(removed, smap) ==
    LET hit == SelectSeq(smap, LAMBDA e : e[1] \in removed)
    IN [i \in 1..Len(hit) |-> <<hit[i][2].namespace, hit[i][1]>>]

\* for sid in removed_ids: if sid in store_map: append (art.namespace, art.key);
\* the ids are visited in store_map order
FinalDeletes(removed, smap) ==
    LET hit == SelectSeq(smap, LAMBDA e : e[1] \in removed)
    IN [i \in 1..Len(hit) |-> <<hit[i][2].namespace, hit[i][2].key>>]

\* ------------------------------------------------------------------------
\* Inputs of a run
\* ------------------------------------------------------------------------
SeqsUpTo(S, n) == UNION {[1..m -> S] : m \in 0..n}

\* what the store may hold when the run starts
StoreSlots == {<<SubNamespace, K1>>, <<namespace, K2>>}

InitialValue(slot) ==
    IF slot = <<SubNamespace, K1>>
    THEN {[kind |-> "Memory", content |-> "c1"], [kind |-> "Pref", content |-> "c1"]}
    ELSE {[kind |-> "Memory", content |-> "c2"]}

InitialStores ==
    UNION {{f \in [D -> [kind : Kinds, content : Contents]] :
                \A slot \in D : f[slot] \in InitialValue(slot)} : D \in SUBSET StoreSlots}

\* MemoryPhase dicts a MemoryStoreEnricher is configured with
PhaseConfigs ==
    {[include_messages |-> FALSE, enable_inserts |-> TRUE, enable_deletes |-> TRUE]}

\* SearchItem(namespace, key, value, score) for an entry of the store
SearchItem(s, slot, score) ==
    [namespace |-> slot[1], key |-> slot[2], value |-> s[slot], score |-> score]

\* the result lists store.asearch may return: at most limit entries of the
\* store, each at most once
SearchResults(s, limit) ==
    {l \in SeqsUpTo({SearchItem(s, slot, sc) : slot \in DOMAIN s, sc \in Scores}, limit) :
        \A i, j \in 1..Len(l) : i # j => <<l[i].namespace, l[i].key>> # <<l[j].namespace, l[j].key>>}

\* ids the extractor's operations name
OpIds == {S1, F1}

\* schema instances the extractor returns
Payloads == {Model("Memory", "c1"), Model("Memory", "c2"), Model("Pref", "c1")}

\* (rmeta.get("json_doc_id", str(uuid.uuid4())), r) for one response: an
\* upsert under an id, or a RemoveDoc whose metadata names the target or
\* carries no json_doc_id
Responses ==
    {ExtractedMemory(id, m) : id \in OpIds, m \in Payloads}
    \cup {ExtractedMemory(id, RemoveDoc(id)) : id \in OpIds}
    \cup {ExtractedMemory(OpUuid, RemoveDoc(id)) : id \in OpIds}

\* ------------------------------------------------------------------------
\* State
\* ------------------------------------------------------------------------
VARIABLES
    store,          \* the persistent store: (namespace, key) -> value
    phases,         \* self.phases
    query_limit,    \* self.query_limit
    pc,             \* where the coroutine ainvoke stands
    store_map,      \* stable id -> SearchItem, in dict order
    store_based,    \* list of (sid, kind, content)
    ephemeral,      \* list of (sid, kind, content)
    removed_ids,    \* set of ids
    phase,          \* index of the next entry of self.phases
    final_puts,     \* list of put dicts
    final_deletes,  \* list of (namespace, key)
    pending,        \* mutations of the final batch not yet completed
    result,         \* the list ainvoke returned
    nops,           \* operations the extractor has proposed in this run
    updNamed,       \* ids some upsert operation of the run was issued under
    delNamed,       \* ids some RemoveDoc of the run named
    delUpd,         \* ids a RemoveDoc and an upsert of one phase both named
    lastDeleted,    \* ids the RemoveDocs of the latest merged phase named
    delLive,        \* ids a RemoveDoc named while a record had that id
    ephRetired,     \* never-stored ids a RemoveDoc removed from ephemeral and
                    \* no later operation named
    recreated,      \* ids a RemoveDoc removed a record of and whose latest
                    \* operation is a later upsert
    everChanged,    \* snapshot ids whose record differed from the snapshot
                    \* after some merge
    store0,         \* the store when the run started
    calls,          \* extractor invocations of the run so far
    enable_inserts, \* the enable_inserts the enricher was created with
    enable_deletes, \* the enable_deletes the enricher was created with
    tool_calls,     \* number of search tool calls of query_req
    search_results_futs,    \* the result list of every tool call, in call order
    completed,      \* the tool calls whose search has returned, in that order
    error,          \* the exception the run has raised, "" if none
    failed_writes,  \* mutations of the final batch that raised
    last_response,  \* the operations the extractor returned in the latest call
    enriched,       \* the enricher output the merge loop has still to visit
    applied,        \* the ExtractedMemory the merge loop visited last, if any
    created,        \* the never-stored ephemeral records as the latest
                    \* operation naming them made them
    sync_run        \* the plan and the outcome of invoke on the same inputs

vars == <<store, phases, query_limit, pc, store_map, store_based, ephemeral,
          removed_ids, phase, final_puts, final_deletes, pending, result,
          nops, updNamed, delNamed, delUpd, lastDeleted, delLive, ephRetired,
          recreated, everChanged, store0, calls, enable_inserts, enable_deletes,
          tool_calls, search_results_futs, completed, error, failed_writes,
          last_response, enriched, applied, created, sync_run>>

config == <<phases, query_limit, enable_inserts, enable_deletes>>
working == <<store_map, store_based, ephemeral, removed_ids, phase>>
plan == <<final_puts, final_deletes, pending, result>>
history == <<nops, updNamed, delNamed, delUpd, lastDeleted, delLive, ephRetired,
             recreated, everChanged, store0, calls>>
searching == <<tool_calls, search_results_futs, completed>>
failure == <<error, failed_writes>>
detail == <<last_response, enriched, applied, created, sync_run>>

\* invoke has planned nothing and has not returned
NoSyncRun == [final_puts |-> <<>>, final_deletes |-> <<>>, returned |-> FALSE, result |-> <<>>]

\* the state a run starts in, the store being one of stores
InitRun(stores) ==
    /\ store \in stores
    /\ phases \in SeqsUpTo(PhaseConfigs, MaxPhases)
    /\ query_limit \in 1..MaxLimit
    /\ pc = "search"
    /\ store_map = <<>>
    /\ store_based = <<>>
    /\ ephemeral = <<>>
    /\ removed_ids = {}
    /\ phase = 1
    /\ final_puts = <<>>
    /\ final_deletes = <<>>
    /\ pending = {}
    /\ result = <<>>
    /\ nops = 0
    /\ updNamed = {}
    /\ delNamed = {}
    /\ delUpd = {}
    /\ lastDeleted = {}
    /\ delLive = {}
    /\ ephRetired = {}
    /\ recreated = {}
    /\ everChanged = {}
    /\ store0 = store
    /\ calls = 0
    /\ enable_inserts = TRUE
    /\ enable_deletes = TRUE
    /\ tool_calls = 0
    /\ search_results_futs = <<>>
    /\ completed = <<>>
    /\ error = ""
    /\ failed_writes = {}
    /\ last_response = <<>>
    /\ enriched = <<>>
    /\ applied = <<>>
    /\ created = {}
    /\ sync_run = NoSyncRun

Init == InitRun(InitialStores)

\* ------------------------------------------------------------------------
\* Runs of an enricher created with enable_inserts=False, enable_deletes=False
\* ------------------------------------------------------------------------
\* phases that leave the flags out and phases that set them to False
GatedPhaseConfigs ==
    {[include_messages |-> FALSE],
     [include_messages |-> FALSE, enable_inserts |-> FALSE, enable_deletes |-> FALSE]}

InitGated ==
    /\ store \in InitialStores
    /\ phases \in SeqsUpTo(GatedPhaseConfigs, MaxPhases)
    /\ query_limit \in 1..MaxLimit
    /\ enable_inserts = FALSE
    /\ enable_deletes = FALSE
    /\ pc = "search"
    /\ store_map = <<>> /\ store_based = <<>> /\ ephemeral = <<>>
    /\ removed_ids = {} /\ phase = 1
    /\ final_puts = <<>> /\ final_deletes = <<>> /\ pending = {} /\ result = <<>>
    /\ nops = 0 /\ calls = 0
    /\ updNamed = {} /\ delNamed = {} /\ delUpd = {} /\ lastDeleted = {}
    /\ delLive = {} /\ ephRetired = {} /\ recreated = {} /\ everChanged = {}
    /\ store0 = store
    /\ tool_calls = 0 /\ search_results_futs = <<>> /\ completed = <<>>
    /\ error = "" /\ failed_writes = {}
    /\ last_response = <<>> /\ enriched = <<>> /\ applied = <<>> /\ created = {}
    /\ sync_run = NoSyncRun

\* ------------------------------------------------------------------------
\* What the history variables record of one extractor response
\* ------------------------------------------------------------------------
UpsertIds(response) ==
    {response[i].id : i \in {j \in 1..Len(response) : ~IsRemoveDoc(response[j].content)}}

RemoveIds(response) ==
    {response[i].content.json_doc_id :
        i \in {j \in 1..Len(response) : IsRemoveDoc(response[j].content)}}

NamedBy(op) ==
    IF IsRemoveDoc(op.content) THEN {op.content.json_doc_id} ELSE {op.id}

NamedIds(response) == UpsertIds(response) \cup RemoveIds(response)

\* ids that were ephemeral before the phase, are no snapshot ids, are named by
\* a RemoveDoc of the response and by no operation after it
RetiredEphemeral(response, eph, smap) ==
    {x \in DictKeys(eph) \ DictKeys(smap) :
        \E i \in 1..Len(response) :
            /\ IsRemoveDoc(response[i].content)
            /\ response[i].content.json_doc_id = x
            /\ \A j \in (i + 1)..Len(response) : x \notin NamedBy(response[j])}

\* ids a RemoveDoc of the response names while store_dict or ephemeral_dict
\* holds a record under that id
RemovedLive(response, sb, smap, eph) ==
    {x \in RemoveIds(response) :
        \E i \in 1..Len(response) :
            /\ IsRemoveDoc(response[i].content)
            /\ response[i].content.json_doc_id = x
            /\ LET acc == _apply_enricher_output(SubSeq(response, 1, i - 1), sb, smap, eph)
               IN x \in DictKeys(acc.store_dict) \cup DictKeys(acc.ephemeral_dict)}

\* snapshot ids whose record in sb differs from the snapshot value
Differing(sb, smap) ==
    {sb[i][1] : i \in {j \in 1..Len(sb) :
        /\ DictHas(smap, sb[j][1])
        /\ LET item == DictGet(smap, sb[j][1])[2]
           IN sb[j][2] # item.value.kind \/ sb[j][3] # item.value.content}}

\* the last operation of the response that names x is an upsert
LastOpIsUpsert(response, x) ==
    \E j \in 1..Len(response) :
        /\ ~IsRemoveDoc(response[j].content)
        /\ response[j].id = x
        /\ \A k \in (j + 1)..Len(response) : x \notin NamedBy(response[k])

Record(response) ==
    /\ nops' = nops + Len(response)
    /\ calls' = calls + 1
    /\ delLive' = delLive \cup RemovedLive(response, store_based, store_map, ephemeral)
    /\ recreated' = {x \in UpsertIds(response) :
                        LastOpIsUpsert(response, x) /\ x \in delLive'}
                     \cup (recreated \ NamedIds(response))
    /\ everChanged' = everChanged \cup Differing(store_based', store_map)
    /\ store0' = store0
    /\ updNamed' = updNamed \cup UpsertIds(response)
    /\ delNamed' = delNamed \cup RemoveIds(response)
    /\ delUpd' = delUpd \cup (UpsertIds(response) \cap RemoveIds(response))
    /\ lastDeleted' = RemoveIds(response)
    /\ ephRetired' = (ephRetired \ NamedIds(response))
                        \cup RetiredEphemeral(response, ephemeral, store_map)

\* ------------------------------------------------------------------------
\* Actions
\* ------------------------------------------------------------------------
\* lines 644-666: generate the queries, gather the searches, sort, seed
Search ==
    /\ pc = "search"
    /\ \E search_results_lists \in SeqsUpTo(SearchResults(store, query_limit), MaxQueries) :
          LET smap == _sort_results(search_results_lists, query_limit)
          IN /\ store_map' = smap
             /\ store_based' = SeedStoreBased(smap)
    /\ ephemeral' = <<>>
    /\ removed_ids' = {}
    /\ pc' = "enrich"
    /\ UNCHANGED <<store, config, phase, plan, history, searching, failure, detail>>

\* the refinement phase sees the store-backed records only
PhaseContext_StoreOnly(sb, eph) == sb

\* "existing": store_based + ephemeral
PhaseContext(sb, eph) == sb \o eph

\* phase.get(key, default)
PhaseGet(p, key, default) == IF key \in DOMAIN p THEN p[key] ELSE default

\* the permissions the primary enricher is created with (lines 556-562)
PrimaryEnricher == [enable_inserts |-> enable_inserts, enable_deletes |-> enable_deletes]

\* the permissions the enricher of a phase is created with
_build_phase_enricher(p) ==
    [enable_inserts |-> PhaseGet(p, "enable_inserts", TRUE),
     enable_deletes |-> PhaseGet(p, "enable_deletes", TRUE)]

\* the extractor keeps to the permissions of its enricher: no RemoveDoc
\* unless deletes are enabled, no record under a new id unless inserts are
Permitted(response, enricher, existing) ==
    /\ enricher.enable_deletes \/ RemoveIds(response) = {}
    /\ enricher.enable_inserts \/ UpsertIds(response) \subseteq DictKeys(existing)

\* one extractor call and the merge of its output
Merge(response, existing) ==
    LET out == _apply_enricher_output(EnricherInvoke(response, existing),
                                      store_based, store_map, ephemeral)
    IN /\ store_based' = out.store_dict
       /\ ephemeral' = out.ephemeral_dict
       /\ removed_ids' = removed_ids \cup SeqToSet(out.removed_ids)
       /\ Record(response)

\* lines 668-675: the primary enrichment
Enrich ==
    /\ pc = "enrich"
    /\ \E response \in SeqsUpTo(Responses, MaxOps - nops) :
          /\ Permitted(response, PrimaryEnricher, store_based)
          /\ Merge(response, store_based)
    /\ pc' = "phases"
    /\ UNCHANGED <<store, config, store_map, phase, plan, searching, failure, detail>>

\* lines 678-691: one iteration of the loop over self.phases
Phase ==
    /\ pc = "phases"
    /\ phase <= Len(phases)
    /\ \E response \in SeqsUpTo(Responses, MaxOps - nops) :
          /\ Permitted(response, _build_phase_enricher(phases[phase]),
                       PhaseContext(store_based, ephemeral))
          /\ Merge(response, PhaseContext(store_based, ephemeral))
    /\ phase' = phase + 1
    /\ UNCHANGED <<store, config, store_map, pc, plan, searching, failure, detail>>

\* the batch is planned and started after any merge
PhasesOver_Always(k, ps) == TRUE

\* the loop over self.phases has visited every phase
PhasesOver(k, ps) == k > Len(ps)

\* lines 693-726: plan the puts and deletes and start them all
Plan ==
    /\ pc = "phases"
    /\ PhasesOver(phase, phases)
    /\ LET puts == FinalPuts(store_based \o ephemeral, store_map, removed_ids, namespace)
           deletes == FinalDeletes(removed_ids, store_map)
       IN /\ final_puts' = puts
          /\ final_deletes' = deletes
          /\ pending' = {<<"put", i>> : i \in 1..Len(puts)}
                            \cup {<<"delete", i>> : i \in 1..Len(deletes)}
    /\ pc' = "write"
    /\ UNCHANGED <<store, config, working, result, history, searching, failure, detail>>

\* store.aput(**put) completes
Aput ==
    /\ pc = "write"
    /\ \E i \in 1..Len(final_puts) :
          /\ <<"put", i>> \in pending
          /\ store' = StorePut(store, final_puts[i].namespace, final_puts[i].key,
                               final_puts[i].value)
          /\ pending' = pending \ {<<"put", i>>}
    /\ UNCHANGED <<config, pc, working, final_puts, final_deletes, result, history, searching, failure, detail>>

\* store.adelete(ns, key) completes
Adelete ==
    /\ pc = "write"
    /\ \E i \in 1..Len(final_deletes) :
          /\ <<"delete", i>> \in pending
          /\ store' = StoreDelete(store, final_deletes[i][1], final_deletes[i][2])
          /\ pending' = pending \ {<<"delete", i>>}
    /\ UNCHANGED <<config, pc, working, final_puts, final_deletes, result, history, searching, failure, detail>>

\* the deletes are reported too, as entries without kind and content
ReturnValue_WithDeletes(puts, deletes) ==
    puts \o [i \in 1..Len(deletes) |-> Put(deletes[i][1], deletes[i][2], "", "")]

\* return final_puts
ReturnValue(puts, deletes) == puts

\* line 728: the gather is over, return final_puts
Return ==
    /\ pc = "write"
    /\ pending = {}
    /\ failed_writes = {}
    /\ result' = ReturnValue(final_puts, final_deletes)
    /\ pc' = "done"
    /\ UNCHANGED <<store, config, working, final_puts, final_deletes, pending, history, searching, failure, detail>>

Next == Search \/ Enrich \/ Phase \/ Plan \/ Aput \/ Adelete \/ Return

Spec == Init /\ [][Next]_vars

\* ------------------------------------------------------------------------
\* Runs in which a search, an extractor call or a store write raises
\* ------------------------------------------------------------------------
\* the failed search is taken to have found nothing and the run goes on
OnReadError_Swallow(next) == next

\* no try/except around the gather of the searches: the exception leaves ainvoke
OnReadError(next) == "aborted"

\* the failed extraction is skipped and the run goes on
OnExtractError_Swallow(next) == next

\* no try/except around the enricher calls: the exception leaves ainvoke
OnExtractError(next) == "aborted"

\* the first failure cancels the mutations still under way
AfterFailure_CancelRest(pend, m) == {}

\* asyncio.gather without return_exceptions: the failed task is over, the
\* other tasks are not cancelled
AfterFailure(pend, m) == pend \ {m}

\* some store.asearch of the gather raises
SearchFails ==
    /\ pc = "search"
    /\ error' = "search"
    /\ pc' = OnReadError("enrich")
    /\ UNCHANGED <<store, config, working, plan, history, searching, failed_writes, detail>>

\* the extractor raises in the primary enrichment
EnrichFails ==
    /\ pc = "enrich"
    /\ calls' = calls + 1
    /\ error' = "extract"
    /\ pc' = OnExtractError("phases")
    /\ UNCHANGED <<store, config, working, plan, nops, updNamed, delNamed, delUpd,
                   lastDeleted, delLive, ephRetired, recreated, everChanged, store0,
                   searching, failed_writes, detail>>

\* the extractor raises in an iteration of the loop over self.phases
PhaseFails ==
    /\ pc = "phases"
    /\ phase <= Len(phases)
    /\ calls' = calls + 1
    /\ error' = "extract"
    /\ pc' = OnExtractError("phases")
    /\ UNCHANGED <<store, config, working, plan, nops, updNamed, delNamed, delUpd,
                   lastDeleted, delLive, ephRetired, recreated, everChanged, store0,
                   searching, failed_writes, detail>>

\* store.aput(**put) raises
AputFails ==
    /\ pc = "write"
    /\ \E i \in 1..Len(final_puts) :
          /\ <<"put", i>> \in pending
          /\ pending' = AfterFailure(pending, <<"put", i>>)
          /\ failed_writes' = failed_writes \cup {<<"put", i>>}
    /\ error' = "write"
    /\ UNCHANGED <<store, config, pc, working, final_puts, final_deletes, result,
                   history, searching, detail>>

\* store.adelete(ns, key) raises
AdeleteFails ==
    /\ pc = "write"
    /\ \E i \in 1..Len(final_deletes) :
          /\ <<"delete", i>> \in pending
          /\ pending' = AfterFailure(pending, <<"delete", i>>)
          /\ failed_writes' = failed_writes \cup {<<"delete", i>>}
    /\ error' = "write"
    /\ UNCHANGED <<store, config, pc, working, final_puts, final_deletes, result,
                   history, searching, detail>>

NextFaulty ==
    \/ Search \/ Enrich \/ Phase \/ Plan \/ Aput \/ Adelete \/ Return
    \/ SearchFails \/ EnrichFails \/ PhaseFails \/ AputFails \/ AdeleteFails

SpecFaulty == Init /\ [][NextFaulty]_vars

\* ------------------------------------------------------------------------
\* The enricher call and the merge loop in detail
\* ------------------------------------------------------------------------
\* the extractor returns in the primary enrichment and the enricher appends
\* the existing records no operation id matches
EnrichCall ==
    /\ pc = "enrich"
    /\ \E r \in SeqsUpTo(Responses, MaxOps - nops) :
          /\ Permitted(r, PrimaryEnricher, store_based)
          /\ last_response' = r
          /\ enriched' = EnricherInvoke(r, store_based)
          /\ nops' = nops + Len(r)
    /\ calls' = calls + 1
    /\ applied' = <<>>
    /\ pc' = "merge"
    /\ UNCHANGED <<store, config, working, plan, updNamed, delNamed, delUpd,
                   lastDeleted, delLive, ephRetired, recreated, everChanged, store0,
                   searching, failure, created, sync_run>>

\* the same in an iteration of the loop over self.phases
PhaseCall ==
    /\ pc = "phases"
    /\ phase <= Len(phases)
    /\ \E r \in SeqsUpTo(Responses, MaxOps - nops) :
          /\ Permitted(r, _build_phase_enricher(phases[phase]),
                       PhaseContext(store_based, ephemeral))
          /\ last_response' = r
          /\ enriched' = EnricherInvoke(r, PhaseContext(store_based, ephemeral))
          /\ nops' = nops + Len(r)
    /\ calls' = calls + 1
    /\ applied' = <<>>
    /\ pc' = "merge"
    /\ UNCHANGED <<store, config, working, plan, updNamed, delNamed, delUpd,
                   lastDeleted, delLive, ephRetired, recreated, everChanged, store0,
                   searching, failure, created, sync_run>>

\* one iteration of the loop over enricher_output
ApplyStep ==
    /\ pc = "merge"
    /\ enriched # <<>>
    /\ LET out == ApplyOne([store_dict |-> store_based,
                            ephemeral_dict |-> ephemeral,
                            removed_ids |-> <<>>], Head(enriched), store_map)
       IN /\ store_based' = out.store_dict
          /\ ephemeral' = out.ephemeral_dict
          /\ removed_ids' = removed_ids \cup SeqToSet(out.removed_ids)
    /\ applied' = <<Head(enriched)>>
    /\ enriched' = Tail(enriched)
    /\ UNCHANGED <<store, config, pc, store_map, phase, plan, history, searching,
                   failure, last_response, created, sync_run>>

\* the record an upsert operation makes
MadeBy(op) == <<op.id, op.content.repr_name, op.content.dump>>

\* the ephemeral records under ids the snapshot does not know, as the latest
\* operation naming them made them: those the response made last, and the
\* earlier ones the response does not name
CreatedAfter(r, eph, smap, before) ==
    {MadeBy(r[j]) : j \in {k \in 1..Len(r) :
                            /\ ~IsRemoveDoc(r[k].content)
                            /\ r[k].id \in DictKeys(eph) \ DictKeys(smap)
                            /\ \A m \in (k + 1)..Len(r) : r[k].id \notin NamedBy(r[m])}}
    \cup {c \in before : c[1] \notin NamedIds(r)}

\* the loop over enricher_output is over
MergeDone ==
    /\ pc = "merge"
    /\ enriched = <<>>
    /\ created' = CreatedAfter(last_response, ephemeral, store_map, created)
    /\ phase' = IF calls > 1 THEN phase + 1 ELSE phase
    /\ pc' = "phases"
    /\ UNCHANGED <<store, config, store_map, store_based, ephemeral, removed_ids,
                   plan, history, searching, failure, last_response, enriched,
                   applied, sync_run>>

NextMerge == Search \/ EnrichCall \/ PhaseCall \/ ApplyStep \/ MergeDone \/ Plan

\* the merge does not read query_limit: the runs with the largest one
InitMerge == Init /\ query_limit = MaxLimit

SpecMerge == InitMerge /\ [][NextMerge]_vars

\* ------------------------------------------------------------------------
\* invoke beside ainvoke: the same search results, the same extractor
\* outputs and the same outcome of every store write
\* ------------------------------------------------------------------------
\* lines 786-814 are the statements of lines 693-721, and the search, the
\* enricher and the merge are the same methods: both runs plan from the same
\* working state
PlanBoth ==
    /\ pc = "phases"
    /\ PhasesOver(phase, phases)
    /\ LET puts == FinalPuts(store_based \o ephemeral, store_map, removed_ids, namespace)
           deletes == FinalDeletes(removed_ids, store_map)
       IN /\ final_puts' = puts
          /\ final_deletes' = deletes
          /\ pending' = {<<"put", i>> : i \in 1..Len(puts)}
                            \cup {<<"delete", i>> : i \in 1..Len(deletes)}
          /\ sync_run' = [final_puts |-> puts, final_deletes |-> deletes,
                          returned |-> FALSE, result |-> <<>>]
    /\ pc' = "write"
    /\ UNCHANGED <<store, config, working, result, history, searching, failure,
                   last_response, enriched, applied, created>>

\* lines 816-822: the executor has run every submitted store.put and
\* store.delete; no future is asked for its result, and invoke returns
\* final_puts
SyncReturn ==
    /\ pc \in {"write", "done"}
    /\ pending = {}
    /\ ~sync_run.returned
    /\ sync_run' = [sync_run EXCEPT !.returned = TRUE, !.result = sync_run.final_puts]
    /\ UNCHANGED <<store, config, pc, working, plan, history, searching, failure,
                   last_response, enriched, applied, created>>

NextSync ==
    \/ Search \/ Enrich \/ Phase \/ PlanBoth \/ Aput \/ Adelete
    \/ AputFails \/ AdeleteFails \/ Return \/ SyncReturn

SpecSync == Init /\ [][NextSync]_vars

NextGated == Search \/ Enrich \/ Phase \/ Plan \/ Aput \/ Adelete \/ Return

SpecGated == InitGated /\ [][NextGated]_vars

\* ------------------------------------------------------------------------
\* Vocabulary of the properties
\* ------------------------------------------------------------------------
\* the final batch has been planned
Planned == pc \in {"write", "done"}

SnapshotIds == DictKeys(store_map)

\* the (namespace, key) of the snapshot entry with stable id sid
OriginalSlot(sid) ==
    LET item == DictGet(store_map, sid)[2] IN <<item.namespace, item.key>>

SnapshotValue(sid) == DictGet(store_map, sid)[2].value

PutSlots == {<<final_puts[i].namespace, final_puts[i].key>> : i \in 1..Len(final_puts)}

DeleteSlots == SeqToSet(final_deletes)

\* the (namespace, key) pairs a mutation for record id sid can be addressed to
SlotsOf(sid) ==
    {<<namespace, sid>>} \cup (IF sid \in SnapshotIds THEN {OriginalSlot(sid)} ELSE {})

NoPutFor(sid) == PutSlots \cap SlotsOf(sid) = {}

NoDeleteFor(sid) == DeleteSlots \cap SlotsOf(sid) = {}

\* ids some operation of the run named
Named == updNamed \cup delNamed

\* ------------------------------------------------------------------------
\* Properties
\* ------------------------------------------------------------------------
\* C1: a run in which the extractor proposes no operation in any phase
\* returns an empty puts list, plans no delete and leaves the store as it was.
C1_NoOpRunIsIdempotent ==
    (pc = "done" /\ nops = 0) =>
        /\ result = <<>>
        /\ final_puts = <<>>
        /\ final_deletes = <<>>
        /\ store = store0

C1_Witness ==
    /\ pc = "done"
    /\ nops = 0
    /\ Len(phases) >= 1
    /\ Len(store_map) = 2
    /\ \E i \in 1..Len(store_based) : store_based[i][2] = "Pref"

\* C2: a snapshot record whose id no operation of any phase names is in the
\* final store_based list with its snapshot kind and content, and no put and
\* no delete of the batch is addressed to its (namespace, key).
C2_CarryOver ==
    Planned =>
        \A sid \in SnapshotIds \ Named :
            /\ <<sid, SnapshotValue(sid).kind, SnapshotValue(sid).content>>
                    \in SeqToSet(store_based)
            /\ OriginalSlot(sid) \notin PutSlots
            /\ OriginalSlot(sid) \notin DeleteSlots
            /\ pc = "done" => store[OriginalSlot(sid)] = store0[OriginalSlot(sid)]

C2_Witness ==
    /\ pc = "done"
    /\ S1 \in SnapshotIds \ Named
    /\ SnapshotValue(S1).kind = "Pref"
    /\ Len(phases) >= 1
    /\ nops >= 1
    /\ final_puts # <<>>

\* C3: a put is addressed to the entry of a surviving store-backed record
\* exactly when the record's final (kind, content) differs from the snapshot
\* value, and that put carries the final value.
C3_DiffMinimality ==
    Planned =>
        \A i \in 1..Len(store_based) :
            LET sid == store_based[i][1]
                kind == store_based[i][2]
                content == store_based[i][3]
                differs == SnapshotValue(sid).kind # kind
                            \/ SnapshotValue(sid).content # content
            IN /\ (OriginalSlot(sid) \in PutSlots) <=> differs
               /\ differs =>
                    \E j \in 1..Len(final_puts) :
                        final_puts[j] =
                            Put(OriginalSlot(sid)[1], OriginalSlot(sid)[2], kind, content)

\* changed after one phase, changed back by a later one: no put
C3_Witness ==
    /\ Planned
    /\ S1 \in everChanged
    /\ \E i \in 1..Len(store_based) :
          /\ store_based[i][1] = S1
          /\ store_based[i][2] = SnapshotValue(S1).kind
          /\ store_based[i][3] = SnapshotValue(S1).content
    /\ final_puts = <<>>

\* C4: no put of the batch is addressed to the target namespace with the
\* stable id of a snapshot entry as its key; the put for an updated snapshot
\* record goes to the entry's original (namespace, key).
C4_IdentityPreserved ==
    Planned =>
        /\ \A i \in 1..Len(final_puts) :
              ~(final_puts[i].namespace = namespace /\ final_puts[i].key \in SnapshotIds)
        /\ \A sid \in (SnapshotIds \cap updNamed) \ delNamed :
              \A i \in 1..Len(final_puts) :
                  final_puts[i].key \in {sid, OriginalSlot(sid)[2]} =>
                      <<final_puts[i].namespace, final_puts[i].key>> = OriginalSlot(sid)

C4_Witness ==
    /\ Planned
    /\ Len(phases) >= 1
    /\ S1 \in (SnapshotIds \cap updNamed) \ delNamed
    /\ OriginalSlot(S1) \in PutSlots
    /\ OriginalSlot(S1)[1] # namespace

\* C5: the deletes of the batch are one delete of the original
\* (namespace, key) for each snapshot id a RemoveDoc of some phase named; a
\* run whose only operation is a RemoveDoc of a snapshot id plans no put and
\* that one delete.
C5_DeletePlanning ==
    Planned =>
        /\ DeleteSlots = {OriginalSlot(sid) : sid \in delNamed \cap SnapshotIds}
        /\ Len(final_deletes) = Cardinality(delNamed \cap SnapshotIds)
        /\ (nops = 1 /\ delNamed \cap SnapshotIds # {}) =>
              (final_puts = <<>> /\ Len(final_deletes) = 1)

C5_Witness ==
    /\ pc = "done"
    /\ nops = 1
    /\ delNamed = {S1}
    /\ final_deletes = <<<<SubNamespace, K1>>>>
    /\ result = <<>>
    /\ <<SubNamespace, K1>> \notin DOMAIN store

\* C6: every record in the final ephemeral list produces exactly one put, to
\* the target namespace, keyed by the record's id, carrying its final value.
C6_EveryEphemeralIsPut ==
    Planned =>
        \A i \in 1..Len(ephemeral) :
            Cardinality({j \in 1..Len(final_puts) :
                final_puts[j] = Put(namespace, ephemeral[i][1],
                                    ephemeral[i][2], ephemeral[i][3])}) = 1

\* C7: an id that a RemoveDoc and an upsert of one phase both name is the id
\* of no record the planner persists, and no put is addressed to it.
C7_DeleteWins ==
    Planned =>
        \A sid \in delUpd :
            /\ NoPutFor(sid)
            /\ sid \notin (DictKeys(store_based) \cup DictKeys(ephemeral)) \ removed_ids

\* C8: no put is addressed to an id that a RemoveDoc named while a record
\* (store-backed or ephemeral) had that id.
C8_DeletionIsPermanent ==
    Planned => \A sid \in delLive : NoPutFor(sid)

\* C9: when a refinement phase is about to run, no id named by a RemoveDoc
\* of the phase merged just before is among the candidate records
\* store_based + ephemeral handed to the extractor.
C9_RetiredNotInNextContext ==
    (pc = "phases" /\ phase <= Len(phases)) =>
        lastDeleted \cap DictKeys(store_based \o ephemeral) = {}

\* C10: an id outside the snapshot that an earlier phase inserted, a later
\* phase removed with a RemoveDoc and no later operation named gets no put
\* and no delete.
C10_EphemeralInsertDeleteVanishes ==
    Planned => \A sid \in ephRetired : NoPutFor(sid) /\ NoDeleteFor(sid)

\* the records the run ends with
FinalMem == store_based \o ephemeral

\* C11: when a RemoveDoc removed a record and a later operation of the run
\* upserted content under the same id, the store holds that content for the
\* record once the run has returned.
C11_RecreationKeepsData ==
    pc = "done" =>
        \A sid \in recreated :
            \E i \in 1..Len(FinalMem) :
                /\ FinalMem[i][1] = sid
                /\ \E slot \in SlotsOf(sid) \cap DOMAIN store :
                      store[slot].content = FinalMem[i][3]

\* C12: once the record sets are seeded, no id occurs twice in store_based,
\* twice in ephemeral, or in both.
C12_IdsUnique ==
    /\ \A i, j \in 1..Len(store_based) : store_based[i][1] = store_based[j][1] => i = j
    /\ \A i, j \in 1..Len(ephemeral) : ephemeral[i][1] = ephemeral[j][1] => i = j
    /\ DictKeys(store_based) \cap DictKeys(ephemeral) = {}

C12_Witness ==
    /\ pc = "phases"
    /\ phase > 1
    /\ updNamed # {}
    /\ S1 \in SnapshotIds
    /\ S1 \in DictKeys(ephemeral)
    /\ F1 \in DictKeys(ephemeral)
    /\ S2 \in DictKeys(store_based)

\* what the store holds when every mutation of the batch has been applied
ExpectedStore ==
    [slot \in ((DOMAIN store0) \cup PutSlots) \ DeleteSlots |->
        IF slot \in PutSlots
        THEN final_puts[CHOOSE i \in 1..Len(final_puts) :
                <<final_puts[i].namespace, final_puts[i].key>> = slot].value
        ELSE store0[slot]]

\* C13: no two mutations of the final batch are addressed to the same
\* (namespace, key), and whatever order they complete in the store ends as
\* the batch applied to the initial store.
C13_BatchIsRaceFree ==
    Planned =>
        /\ Cardinality(PutSlots \cup DeleteSlots) = Len(final_puts) + Len(final_deletes)
        /\ pc = "done" => store = ExpectedStore

C13_Witness ==
    /\ pc = "done"
    /\ Len(final_puts) >= 1
    /\ Len(final_deletes) >= 1
    /\ S1 \in DictKeys(ephemeral)


\* ------------------------------------------------------------------------
\* The search step in detail: the tool calls, the searches, the gather
\* ------------------------------------------------------------------------
\* the results in the order the searches returned
Gather_ByCompletion(futs, order) == [k \in 1..Len(order) |-> futs[order[k]]]

\* asyncio.gather(*[...]) and [fut.result() for fut in search_results_futs]:
\* the results in the order of the tool calls, whatever order they returned in
Gather(futs, order) == futs

SlotOf(it) == <<it.namespace, it.key>>

\* a store with three entries, for the searches to rank
SearchStores ==
    {[slot \in StoreSlots \cup {<<namespace, K3>>} |->
        IF slot = <<SubNamespace, K1>> THEN [kind |-> "Pref", content |-> "c1"]
        ELSE IF slot = <<namespace, K2>> THEN [kind |-> "Memory", content |-> "c2"]
        ELSE [kind |-> "Memory", content |-> "c1"]]}

InitSearch == InitRun(SearchStores) /\ phases = <<>>

\* the scores the searches give the entry at slot
ScoresOf(slot) ==
    IF slot = <<SubNamespace, K1>> THEN Scores
    ELSE IF slot = <<namespace, K2>> THEN {1}
    ELSE {NoScore}

\* the result lists a search may return: at most limit entries of the store,
\* each at most once
RankedResults(s, limit) ==
    {l \in SeqsUpTo(UNION {{SearchItem(s, slot, sc) : sc \in ScoresOf(slot)} :
                                slot \in DOMAIN s}, limit) :
        \A i, j \in 1..Len(l) : i # j => SlotOf(l[i]) # SlotOf(l[j])}

\* query_req = await self.query_gen.ainvoke(query_text); one search is
\* started per tool call
QueryGen ==
    /\ pc = "search"
    /\ \E n \in 0..MaxQueries :
          /\ tool_calls' = n
          /\ search_results_futs' = [i \in 1..n |-> <<>>]
    /\ completed' = <<>>
    /\ pc' = "gather"
    /\ UNCHANGED <<store, config, working, plan, history, failure, detail>>

\* store.asearch(namespace, ..., limit=self.query_limit) of one tool call returns
Asearch ==
    /\ pc = "gather"
    /\ \E i \in (1..tool_calls) \ SeqToSet(completed) :
          \E results \in RankedResults(store, query_limit) :
              /\ search_results_futs' = [search_results_futs EXCEPT ![i] = results]
              /\ completed' = Append(completed, i)
    /\ UNCHANGED <<store, config, pc, working, plan, history, tool_calls, failure, detail>>

\* every search has returned: sort the results and seed the working state
SortAndSeed ==
    /\ pc = "gather"
    /\ Len(completed) = tool_calls
    /\ LET smap == _sort_results(Gather(search_results_futs, completed), query_limit)
       IN /\ store_map' = smap
          /\ store_based' = SeedStoreBased(smap)
    /\ ephemeral' = <<>>
    /\ removed_ids' = {}
    /\ pc' = "enrich"
    /\ UNCHANGED <<store, config, phase, plan, history, searching, failure, detail>>

NextSearch == QueryGen \/ Asearch \/ SortAndSeed

SpecSearch == InitSearch /\ [][NextSearch]_vars

\* the search step is over and its result lists are still at hand
Sorted == pc = "enrich" /\ Len(completed) = tool_calls

AllItems == Flatten(search_results_futs)

AllSlots == {SlotOf(AllItems[i]) : i \in 1..Len(AllItems)}

\* the entry the key-by-key merge keeps for a slot: the last one visited
DedupEntry(slot) ==
    AllItems[CHOOSE i \in 1..Len(AllItems) :
                /\ SlotOf(AllItems[i]) = slot
                /\ \A j \in (i + 1)..Len(AllItems) : SlotOf(AllItems[j]) # slot]

ReturnedSlots == {SlotOf(store_map[i][2]) : i \in 1..Len(store_map)}

\* a ranks at least as high as b; a missing score ranks below every score
RanksAtLeast(a, b) ==
    b.score = NoScore \/ (a.score # NoScore /\ a.score >= b.score)

Min(a, b) == IF a < b THEN a ELSE b

\* C14: _sort_results returns at most query_limit entries, at most one per
\* (namespace, key), as many as the limit and the distinct keys allow, each the
\* deduplicated entry of its key, and every returned entry ranks at least as
\* high as every deduplicated entry left out, a missing score ranking lowest.
C14_SortResults ==
    Sorted =>
        /\ Len(store_map) <= query_limit
        /\ Len(store_map) = Min(query_limit, Cardinality(AllSlots))
        /\ \A i, j \in 1..Len(store_map) :
              SlotOf(store_map[i][2]) = SlotOf(store_map[j][2]) => i = j
        /\ \A i \in 1..Len(store_map) :
              /\ SlotOf(store_map[i][2]) \in AllSlots
              /\ store_map[i][2] = DedupEntry(SlotOf(store_map[i][2]))
              /\ \A slot \in AllSlots \ ReturnedSlots :
                    RanksAtLeast(store_map[i][2], DedupEntry(slot))

\* two queries share a key with different scores, a scored entry is returned
\* and an entry without score is left out
C14_Witness ==
    /\ Sorted
    /\ tool_calls = 2
    /\ query_limit = 2
    /\ \E a \in 1..Len(search_results_futs[1]), b \in 1..Len(search_results_futs[2]) :
          /\ SlotOf(search_results_futs[1][a]) = SlotOf(search_results_futs[2][b])
          /\ search_results_futs[1][a].score # search_results_futs[2][b].score
    /\ Len(store_map) = 2
    /\ store_map[1][2].score # NoScore
    /\ \E slot \in AllSlots \ ReturnedSlots : DedupEntry(slot).score = NoScore

Perms(n) == {p \in [1..n -> 1..n] : \A i, j \in 1..n : p[i] = p[j] => i = j}

\* the ids of a snapshot mapping and the value stored under each
Mapping(smap) == {<<smap[i][1], smap[i][2].value>> : i \in 1..Len(smap)}

\* C15 as stated: merging the result lists in any order gives the same ids
\* and values as the snapshot the run computed.
C15_AnyMergeOrder ==
    Sorted =>
        \A p \in Perms(tool_calls) :
            Mapping(_sort_results([k \in 1..tool_calls |-> search_results_futs[p[k]]],
                                  query_limit))
                = Mapping(store_map)

\* C15: the snapshot mapping is the one computed from the result lists in
\* tool-call order, whatever order the searches returned in.
C15_CompletionOrderIndependent ==
    Sorted => store_map = _sort_results(search_results_futs, query_limit)

\* the second search returned first and merging in that order would have
\* given another snapshot
C15_Witness ==
    /\ Sorted
    /\ completed = <<2, 1>>
    /\ Mapping(_sort_results(<<search_results_futs[2], search_results_futs[1]>>,
                             query_limit)) # Mapping(store_map)

\* C16: the stable id of a snapshot entry is the id of every store entry with
\* the same namespace and key, whatever its value and score.
C16_StableIdDeterminism ==
    Sorted =>
        \A i \in 1..Len(store_map) :
            \A v \in [kind : Kinds, content : Contents], sc \in Scores :
                _stable_id([namespace |-> store_map[i][2].namespace,
                            key |-> store_map[i][2].key,
                            value |-> v, score |-> sc]) = store_map[i][1]

\* a scored and an unscored entry of different kinds are in the snapshot
C16_Witness ==
    /\ Sorted
    /\ Len(store_map) = 2
    /\ store_map[1][2].score # NoScore
    /\ store_map[2][2].score = NoScore
    /\ store_map[1][2].value.kind # store_map[2][2].value.kind


\* no mutation was planned or issued and the store is as the run found it
NothingWritten ==
    /\ store = store0
    /\ final_puts = <<>>
    /\ final_deletes = <<>>
    /\ pending = {}

\* C17: when the extractor fails in the primary enrichment or in a refinement
\* phase, the run is aborted with that error and no put and no delete is
\* planned or issued.
C17_ExtractionFailureAborts ==
    error = "extract" => pc = "aborted" /\ NothingWritten

\* the extractor fails in a refinement phase after the primary enrichment
\* removed a stored record and inserted a new one
C17_Witness ==
    /\ error = "extract"
    /\ calls = 2
    /\ S1 \in removed_ids
    /\ F1 \in DictKeys(ephemeral)

\* C18: when a search fails, the run is aborted before the extractor is
\* invoked and before any put or delete is planned or issued.
C18_ReadFailureAborts ==
    error = "search" => pc = "aborted" /\ calls = 0 /\ NothingWritten

\* a search fails in a run over a store with two entries
C18_Witness ==
    /\ error = "search"
    /\ pc = "aborted"
    /\ DOMAIN store = StoreSlots

PutDone(i) ==
    /\ <<final_puts[i].namespace, final_puts[i].key>> \in DOMAIN store
    /\ store[<<final_puts[i].namespace, final_puts[i].key>>] = final_puts[i].value

DeleteDone(i) == final_deletes[i] \notin DOMAIN store

\* C19: whatever mutations of the final batch fail, every other planned put
\* and delete is still to be attempted or has taken effect in the store.
C19_WriteFailureIndependence ==
    pc = "write" =>
        /\ \A i \in 1..Len(final_puts) :
              <<"put", i>> \in pending \cup failed_writes \/ PutDone(i)
        /\ \A i \in 1..Len(final_deletes) :
              <<"delete", i>> \in pending \cup failed_writes \/ DeleteDone(i)

\* the batch is over: the delete failed and the put took effect
C19_Witness ==
    /\ pc = "write"
    /\ pending = {}
    /\ Len(final_puts) = 1
    /\ Len(final_deletes) = 1
    /\ failed_writes = {<<"delete", 1>>}
    /\ PutDone(1)
    /\ ~DeleteDone(1)


\* C20: a run of an enricher created with enable_inserts=False and
\* enable_deletes=False, whose extractors keep to the permissions of their
\* enrichers, plans no delete, puts under no new key, and leaves the store with
\* the keys it had.
C20_DisabledMeansNoInsertNoDelete ==
    (~enable_inserts /\ ~enable_deletes) =>
        /\ final_deletes = <<>>
        /\ PutSlots \subseteq DOMAIN store0
        /\ DOMAIN store = DOMAIN store0


\* the entries of the store that are new or differ from the start of the run
WrittenSlots ==
    {slot \in DOMAIN store : slot \notin DOMAIN store0 \/ store[slot] # store0[slot]}

\* C21: the list a run returns is the list of the puts it issued: every entry
\* is in the store under its namespace and key with its value, the entries
\* written to the store are the entries of the list, and no entry of the list
\* has the namespace and key of a delete.
C21_ReturnPayload ==
    pc = "done" =>
        /\ result = final_puts
        /\ \A i \in 1..Len(result) :
              /\ <<result[i].namespace, result[i].key>> \in DOMAIN store
              /\ store[<<result[i].namespace, result[i].key>>] = result[i].value
        /\ WrittenSlots = {<<result[i].namespace, result[i].key>> : i \in 1..Len(result)}
        /\ \A i \in 1..Len(result), j \in 1..Len(final_deletes) :
              <<result[i].namespace, result[i].key>> # final_deletes[j]

\* a run that issued a put and a delete has returned
C21_Witness ==
    /\ pc = "done"
    /\ Len(result) = 1
    /\ Len(final_deletes) = 1
    /\ F1 \in DictKeys(ephemeral)


\* the enricher has returned and the merge loop has visited nothing yet
CallReturned == pc = "merge" /\ applied = <<>>

\* the loop over enricher_output is about to visit an ExtractedMemory
Visiting == pc = "merge" /\ enriched # <<>>

AllRecords == SeqToSet(store_based) \cup SeqToSet(ephemeral)

\* C22: after every merge each ephemeral record under a new id is as the
\* latest operation naming it made it, and the plan puts it with that kind
\* and content under its id in the target namespace.
C22_UntouchedEphemeralSurvives ==
    /\ pc = "phases" => created \subseteq SeqToSet(ephemeral)
    /\ pc = "write" =>
          \A c \in created :
              \E i \in 1..Len(final_puts) :
                  final_puts[i] = Put(namespace, c[1], c[2], c[3])

\* the kind of the record store_based or ephemeral holds under id, the
\* default kind when neither holds one
KindOfPrior(id) ==
    IF DictHas(store_based, id) THEN DictGet(store_based, id)[2]
    ELSE IF DictHas(ephemeral, id) THEN DictGet(ephemeral, id)[2]
    ELSE "Memory"

\* C23: when the merge loop visits an operation that is no delete and whose
\* payload is unstructured, the record it leaves under the id has the kind of
\* the prior record with that id, store-backed or ephemeral, and the default
\* kind when there is none.
C23_KindResolution ==
    [][(Visiting /\ ~Head(enriched).content.is_model) =>
            \E rec \in SeqToSet(store_based') \cup SeqToSet(ephemeral') :
                /\ rec[1] = Head(enriched).id
                /\ rec[2] = KindOfPrior(Head(enriched).id)]_vars


\* the merge loop is about to visit an operation that is no delete and whose
\* id neither store_based nor ephemeral holds
Dangling ==
    /\ Visiting
    /\ ~IsRemoveDoc(Head(enriched).content)
    /\ Head(enriched).id \notin DictKeys(store_based) \cup DictKeys(ephemeral)

C25_PhaseSequencing ==
    /\ pc \in {"search", "enrich"} => calls = 0
    /\ pc = "phases" => calls = phase
    /\ pc = "merge" => calls = 1 \/ calls = phase + 1
    /\ pc = "write" => calls = 1 + Len(phases)
    /\ (CallReturned /\ calls > 1) =>
          enriched = EnricherInvoke(last_response, store_based \o ephemeral)

\* the enricher of the first refinement phase has returned and carries over
\* the ephemeral record the primary enrichment made
C25_Witness ==
    /\ CallReturned
    /\ calls = 2
    /\ F1 \in DictKeys(ephemeral)
    /\ \E k \in (Len(last_response) + 1)..Len(enriched) : enriched[k].id = F1

\* the target of the delete marker the merge loop is about to visit
Target == Head(enriched).content.json_doc_id

Without(records, id) == SelectSeq(records, LAMBDA rec : rec[1] # id)

\* C26: visiting a delete marker removes the record with the target id from
\* store_based and from ephemeral, keeps every other record as it is and in
\* place, adds the target to the removed ids if and only if it is a snapshot
\* id, and changes nothing when no record has the target id.
C26_DeleteMarkerFrame ==
    [][(Visiting /\ IsRemoveDoc(Head(enriched).content)) =>
            /\ store_based' = Without(store_based, Target)
            /\ ephemeral' = Without(ephemeral, Target)
            /\ removed_ids' = IF Target \in SnapshotIds THEN removed_ids \cup {Target}
                              ELSE removed_ids
            /\ Target \notin DictKeys(store_based) \cup DictKeys(ephemeral) =>
                  UNCHANGED <<store_based, ephemeral, removed_ids>>]_vars

\* a delete marker removed the stored record S1 and left the stored record S2
C26_Witness ==
    /\ pc = "merge"
    /\ applied # <<>>
    /\ IsRemoveDoc(applied[1].content)
    /\ applied[1].content.json_doc_id = S1
    /\ S1 \in removed_ids
    /\ DictKeys(store_based) = {S2}
    /\ SnapshotIds = {S1, S2}

\* the existing records the latest enricher call was given
Existing == IF calls = 1 THEN store_based ELSE store_based \o ephemeral

ResponseIds == {last_response[i].id : i \in 1..Len(last_response)}

Unmatched == SelectSeq(Existing, LAMBDA rec : rec[1] \notin ResponseIds)

\* C27: the enricher returns the operations of the extractor followed by the
\* existing records whose id is no operation id, in their order and with their
\* content; every existing id is an id of the output, and an existing record
\* whose id is an operation id is not appended.
C27_EnricherCarryOver ==
    CallReturned =>
        /\ Len(enriched) = Len(last_response) + Len(Unmatched)
        /\ SubSeq(enriched, 1, Len(last_response)) = last_response
        /\ \A i \in 1..Len(Unmatched) :
              enriched[Len(last_response) + i]
                  = ExtractedMemory(Unmatched[i][1], Raw(Unmatched[i][3]))
        /\ \A i \in 1..Len(Existing) :
              \E k \in 1..Len(enriched) : enriched[k].id = Existing[i][1]

\* the extractor named one of two existing records: the other is appended
C27_Witness ==
    /\ CallReturned
    /\ DictKeys(Existing) = {S1, S2}
    /\ ResponseIds = {S1}
    /\ Len(enriched) = Len(last_response) + 1
    /\ enriched[Len(enriched)].id = S2

\* C29: the ids of store_based are snapshot ids, and an id a delete marker
\* removed from store_based is not an id of store_based again.
C29_StoreBasedOnlyShrinks ==
    /\ [](DictKeys(store_based) \subseteq SnapshotIds)
    /\ [](DictKeys(store_based) \cap removed_ids = {})
    /\ [][pc # "search" => DictKeys(store_based') \subseteq DictKeys(store_based)]_vars

\* a removed snapshot id was upserted again and is ephemeral, not store-backed
C29_Witness ==
    /\ pc = "phases"
    /\ S1 \in removed_ids
    /\ S1 \in DictKeys(ephemeral)
    /\ DictKeys(store_based) = {S2}


\* C30: the extractor is not called while the search is under way, and until
\* the merge of the last configured phase is over nothing is planned, nothing
\* is issued and the store is as the run found it.
C30_MutationsDeferred ==
    /\ pc = "search" => calls = 0
    /\ pc \in {"search", "enrich", "phases"} =>
          /\ store = store0
          /\ final_puts = <<>>
          /\ final_deletes = <<>>
          /\ pending = {}
    /\ (store # store0 \/ pending # {}) =>
          /\ pc \in {"write", "done"}
          /\ calls = 1 + Len(phases)
          /\ phase = Len(phases) + 1

\* part of the batch has reached the store after a refinement phase
C30_Witness ==
    /\ pc = "write"
    /\ Len(phases) = 1
    /\ store # store0
    /\ pending # {}


\* ainvoke has returned or has raised the error of a failed write
AsyncOver == pc = "done" \/ (pc = "write" /\ pending = {} /\ failed_writes # {})

\* C28: on the same search results, extractor outputs and store, invoke and
\* ainvoke issue the same puts and the same deletes, and when both are over
\* ainvoke has returned the list invoke has returned.
C28_SyncAsyncEquivalent ==
    /\ Planned =>
          /\ SeqToSet(sync_run.final_puts) = SeqToSet(final_puts)
          /\ SeqToSet(sync_run.final_deletes) = SeqToSet(final_deletes)
    /\ (sync_run.returned /\ AsyncOver) =>
          /\ pc = "done"
          /\ result = sync_run.result

====
